---- MODULE Spec2Model ----
(***************************************************************************)
(* tts-cli: a command-line text-to-speech dispatcher.                      *)
(*                                                                         *)
(* Five specifications over one set of variables:                          *)
(*   Spec        - one invocation of the program (src/main.rs), from any   *)
(*                 of a few caches, with every argument and outcome;       *)
(*   SpecSession - up to MaxCommands invocations one after the other on    *)
(*                 the same file system;                                   *)
(*   SpecStore   - the cache store functions of src/cache.rs called        *)
(*                 directly, with a write that can be interrupted;         *)
(*   SpecKey     - generate_cache_key applied to bounded strings;          *)
(*   SpecKeyPair - generate_cache_key applied to two bounded requests.     *)
(*                                                                         *)
(* Strings are TLA+ strings, byte blobs are sequences of byte tokens.      *)
(* An Option<T> is <<>> for None and <<x>> for Some(x).                    *)
(***************************************************************************)
EXTENDS Integers, Sequences, FiniteSets, TLC

VARIABLES
    \* ---- the file system, shared by every process invocation
    cacheDir,       \* does <cache-root>/tts-cli exist
    cacheFiles,     \* function: path of an existing cache file -> its bytes
    tmpFiles,       \* function: name of an existing file of temp_dir() -> its bytes
    userFile,       \* Option: the bytes of the --output file
    \* ---- one process invocation of the command-line program
    pc,             \* position of main
    req,            \* the parsed Commands::Speak arguments
    tried,          \* the calls of synthesize_text so far: provider and whether it returned Ok
    available_providers, \* the Vec returned by get_available_providers
    idx,            \* position of the fallback loop in fallback_order
    audio_data,     \* Option: the audio bytes main holds
    written,        \* bytes of audio_data already written by fs::write
    exit,           \* how the process ended
    stdout,         \* the lines printed by this invocation
    worker,         \* the playback thread
    chan,           \* the mpsc channel: Option of the worker's result
    elapsed,        \* seconds waited in recv_timeout
    ncmd,           \* process invocations so far
    \* ---- history of the program, read by the properties only
    cache0,         \* the cache as it was when the command began
    stored,         \* path -> bytes of each entry a completed cache_audio wrote and nothing removed
    expect,         \* Option: stored entry of this request's key when the command began
    \* ---- the cache store called directly (SpecStore)
    sPc, sKey, sBlob, sRet, sModel, sPuts, sClean,
    \* ---- generate_cache_key on bounded strings (SpecKey)
    kIn, kOut

fsVars    == <<cacheDir, cacheFiles, tmpFiles, userFile>>
procVars  == <<pc, req, tried, available_providers, idx, audio_data, written,
               exit, stdout, worker, chan, elapsed, ncmd>>
histVars  == <<cache0, stored, expect>>
storeVars == <<sPc, sKey, sBlob, sRet, sModel, sPuts, sClean>>
keyVars   == <<kIn, kOut>>
vars      == <<fsVars, procVars, histVars, storeVars, keyVars>>

----------------------------------------------------------------------------
(* Bounds and input sets *)

MaxCommands == 3
MaxStrLen   == 2

None    == <<>>
Some(x) == <<x>>
IsSome(o) == o # <<>>
Unwrap(o) == o[1]

EmptyMap == [x \in {} |-> <<>>]
Put(f, k, v) == [x \in DOMAIN f \cup {k} |-> IF x = k THEN v ELSE f[x]]
Del(f, k)    == [x \in DOMAIN f \ {k} |-> f[x]]

\* The arguments of one invocation are drawn from these.
Texts      == {"hello"}
Names      == {"espeak", "festival", "say", "gcloud", "speak"}
Languages  == {"en-US", "fr-FR"}
Voices     == {None, Some("v")}
Modes      == {"output", "no_play", "play"}

----------------------------------------------------------------------------
(* src/cache.rs *)

\* Sha256 followed by hex::encode, idealised as an injective function of the
\* byte string fed to the hasher.
HexDigest(bytes) == "h(" \o bytes \o ")"

\* As generate_cache_key, without the voice.
generate_cache_key_IgnoresVoice(text, provider, language, voice) ==
    HexDigest((text \o provider) \o language)

generate_cache_key(text, provider, language, voice) ==
    LET h1 == text
        h2 == h1 \o provider
        h3 == h2 \o language
        h4 == IF IsSome(voice) THEN h3 \o Unwrap(voice) ELSE h3
    IN  HexDigest(h4)

get_cache_path(cache_key) == "tts-cli/" \o cache_key \o ".audio"

\* As get_cached_audio, never finding the file.
get_cached_audio_NeverHits(files, cache_key) == None

\* Ok(Some(data)) when the path exists, Ok(None) otherwise.
get_cached_audio(files, cache_key) ==
    LET cache_path == get_cache_path(cache_key)
    IN  IF cache_path \in DOMAIN files THEN Some(files[cache_path]) ELSE None

\* As FsCreate, opening an existing file without truncating it.
FsCreate_NoTruncate(files, path) ==
    IF path \in DOMAIN files THEN files ELSE Put(files, path, <<>>)

\* File::create of fs::write: the file exists and is empty.
FsCreate(files, path) == Put(files, path, <<>>)

\* One write() of write_all: the next byte reaches the file.
FsAppend(files, path, byte) == Put(files, path, Append(files[path], byte))

\* fs::remove_file
FsRemove(files, path) == Del(files, path)

\* As clear_text_cache, calling remove_file without looking whether the path exists.
clear_text_cache_NoExistsCheck(files, text, provider, language, voice) ==
    LET cache_key  == generate_cache_key(text, provider, language, voice)
        cache_path == get_cache_path(cache_key)
    IN  IF cache_path \in DOMAIN files
        THEN [res |-> "ok", files |-> FsRemove(files, cache_path)]
        ELSE [res |-> "io_error", files |-> files]

\* clear_text_cache: the Result and the files afterwards.
clear_text_cache(files, text, provider, language, voice) ==
    LET cache_key  == generate_cache_key(text, provider, language, voice)
        cache_path == get_cache_path(cache_key)
    IN  IF cache_path \in DOMAIN files
        THEN [res |-> "ok", files |-> FsRemove(files, cache_path)]
        ELSE [res |-> "ok", files |-> files]

\* clear_all_cache: the Result, the directory and the files afterwards.
clear_all_cache(dir, files) ==
    IF dir THEN [res |-> "ok", dir |-> FALSE, files |-> EmptyMap]
           ELSE [res |-> "ok", dir |-> dir, files |-> files]

----------------------------------------------------------------------------
(* src/providers.rs *)

\* The machine the probes look at: the commands that can be started and the
\* environment variables that are set.
Commands == {"gcloud", "espeak", "festival", "say"}
EnvVars  == {"GOOGLE_APPLICATION_CREDENTIALS", "GCLOUD_PROJECT"}

check_gcloud_availability(cmds, env) ==
    \/ "GOOGLE_APPLICATION_CREDENTIALS" \in env
    \/ "GCLOUD_PROJECT" \in env
    \/ "gcloud" \in cmds
check_espeak_availability(cmds)   == "espeak" \in cmds
check_festival_availability(cmds) == "festival" \in cmds
check_say_availability(cmds)      == "say" \in cmds

get_available_providers(cmds, env) ==
    << [name |-> "gcloud",   description |-> "Google Cloud Text-to-Speech API",
        available |-> check_gcloud_availability(cmds, env)],
       [name |-> "espeak",   description |-> "eSpeak TTS engine",
        available |-> check_espeak_availability(cmds)],
       [name |-> "festival", description |-> "Festival TTS engine",
        available |-> check_festival_availability(cmds)],
       [name |-> "say",      description |-> "macOS built-in TTS",
        available |-> check_say_availability(cmds)] >>

\* What an engine produces for a text: the engine, the text and the one
\* parameter the adapter passes on (voice name or language code).
EngineAudio(engine, text, param) == <<engine, text, param>>

Ok(data) == [ok |-> TRUE,  data |-> data, err |-> ""]
Err(e)   == [ok |-> FALSE, data |-> <<>>, err |-> e]

\* What the outside world can do to one synthesis call.
Outcomes(provider) ==
    CASE provider = "gcloud"   -> {"auth_error", "api_error", "ok"}
      [] provider = "espeak"   -> {"spawn_error", "engine_error", "ok"}
      [] provider \in {"festival", "say"} ->
             {"spawn_error", "engine_error", "engine_error_file", "read_error", "ok"}
      [] OTHER -> {"none"}

synthesize_gcloud(text, language, voice, outcome) ==
    LET voice_name ==
            IF IsSome(voice) THEN Unwrap(voice)
            ELSE CASE language = "en-US" -> "en-US-Wavenet-D"
                   [] language = "es-ES" -> "es-ES-Wavenet-C"
                   [] language = "fr-FR" -> "fr-FR-Wavenet-D"
                   [] language = "de-DE" -> "de-DE-Wavenet-D"
                   [] OTHER              -> "en-US-Wavenet-D"
    IN  CASE outcome = "auth_error" -> Err("AuthError")   \* get_gcloud_token failed
          [] outcome = "api_error"  -> Err("ApiError")    \* no success status, no audioContent
          [] OTHER                  -> Ok(EngineAudio("gcloud", text, voice_name))

synthesize_espeak(text, language, voice, outcome) ==
    LET lang_code ==
            CASE language \in {"en-US", "en"} -> "en"
              [] language \in {"es-ES", "es"} -> "es"
              [] language \in {"fr-FR", "fr"} -> "fr"
              [] language \in {"de-DE", "de"} -> "de"
              [] OTHER                        -> "en"
    IN  CASE outcome = "spawn_error"  -> Err("IoError")
          [] outcome = "engine_error" -> Err("EngineError")
          [] OTHER                    -> Ok(EngineAudio("espeak", text, lang_code))

\* The temporary files after the engine subprocess ran: it may fail before or
\* after creating its output file, and writes the whole audio when it exits 0.
RunEngine(tmp, temp_file, outcome, audio) ==
    CASE outcome \in {"spawn_error", "engine_error"} -> tmp
      [] outcome = "engine_error_file"               -> Put(tmp, temp_file, <<>>)
      [] OTHER                                       -> Put(tmp, temp_file, audio)

\* The part synthesize_festival and synthesize_say share, from Command::output
\* to the return: [res, tmp].
SynthesizeViaTempFile(tmp, temp_file, outcome, audio) ==
    LET ran == RunEngine(tmp, temp_file, outcome, audio)
    IN  CASE outcome = "spawn_error" -> [res |-> Err("IoError"), tmp |-> ran]
          [] outcome \in {"engine_error", "engine_error_file"} ->
                 [res |-> Err("EngineError"), tmp |-> ran]
          [] outcome = "read_error"  -> [res |-> Err("IoError"), tmp |-> ran]
          [] OTHER -> [res |-> Ok(ran[temp_file]), tmp |-> FsRemove(ran, temp_file)]

synthesize_festival(tmp, text, language, voice, outcome) ==
    SynthesizeViaTempFile(tmp, "tts_temp.wav", outcome,
                          EngineAudio("festival", text, ""))

synthesize_say(tmp, text, language, voice, outcome) ==
    SynthesizeViaTempFile(tmp, "tts_temp.aiff", outcome,
                          EngineAudio("say", text,
                                      IF IsSome(voice) THEN Unwrap(voice) ELSE ""))

\* [res, tmp]: the Result and the temporary files afterwards.
synthesize_text(tmp, text, provider, language, voice, outcome) ==
    CASE provider = "gcloud" ->
             [res |-> synthesize_gcloud(text, language, voice, outcome), tmp |-> tmp]
      [] provider = "espeak" ->
             [res |-> synthesize_espeak(text, language, voice, outcome), tmp |-> tmp]
      [] provider = "festival" -> synthesize_festival(tmp, text, language, voice, outcome)
      [] provider = "say"      -> synthesize_say(tmp, text, language, voice, outcome)
      [] OTHER -> [res |-> Err("UnknownProvider"), tmp |-> tmp]

----------------------------------------------------------------------------
(* src/main.rs: one process invocation *)

PlaybackTimeoutSecs == 10

\* As fallback_order, in the order of the provider catalog (cloud first).
fallback_order_CatalogOrder == <<"gcloud", "espeak", "festival", "say">>

fallback_order == <<"espeak", "festival", "say", "gcloud">>

NoReq == [text |-> "", provider |-> "", language |-> "", voice |-> None,
          mode |-> "play", no_cache |-> FALSE]

Requests == [text : Texts, provider : Names, language : Languages, voice : Voices,
             mode : Modes, no_cache : BOOLEAN]

ReqKey(r) == generate_cache_key(r.text, r.provider, r.language, r.voice)

\* A new process: nothing of the previous one survives but the files.
Begin ==
    /\ pc \in {"idle", "done"}
    /\ ncmd < MaxCommands
    /\ ncmd' = ncmd + 1
    /\ cache0' = [dir |-> cacheDir, files |-> cacheFiles]
    /\ tried' = <<>>
    /\ available_providers' = <<>>
    /\ idx' = 0
    /\ written' = 0
    /\ worker' = "none"
    /\ chan' = None
    /\ elapsed' = 0

\* Commands::Speak with --clear-cache.
SpeakClearCache(r) ==
    /\ Begin
    /\ req' = r
    /\ cacheFiles' = clear_text_cache(cacheFiles, r.text, r.provider, r.language,
                                      r.voice).files
    /\ stored' = Del(stored, get_cache_path(ReqKey(r)))
    /\ expect' = None
    /\ stdout' = << <<"Cache cleared for the specified text">> >>
    /\ audio_data' = None
    /\ pc' = "done"
    /\ exit' = "ok"
    /\ UNCHANGED <<cacheDir, tmpFiles, userFile, storeVars, keyVars>>

\* Commands::Speak up to the cache lookup.
Speak(r) ==
    /\ Begin
    /\ req' = r
    /\ exit' = "running"
    /\ LET cache_key == ReqKey(r)
           cached    == get_cached_audio(cacheFiles, cache_key)
           path      == get_cache_path(cache_key)
       IN  /\ expect' = IF ~r.no_cache /\ path \in DOMAIN stored
                        THEN Some(stored[path]) ELSE None
           /\ IF ~r.no_cache /\ IsSome(cached)
              THEN /\ stdout' = << <<"Using cached audio">> >>
                   /\ audio_data' = cached
                   /\ pc' = "output"
              ELSE /\ stdout' = <<>>
                   /\ audio_data' = None
                   /\ pc' = "preferred"
    /\ UNCHANGED <<fsVars, stored, storeVars, keyVars>>

\* Commands::ClearCache
ClearCache ==
    /\ Begin
    /\ LET after == clear_all_cache(cacheDir, cacheFiles)
       IN  /\ cacheDir' = after.dir
           /\ cacheFiles' = after.files
    /\ stored' = EmptyMap
    /\ expect' = None
    /\ req' = NoReq
    /\ stdout' = << <<"All cache cleared">> >>
    /\ audio_data' = None
    /\ pc' = "done"
    /\ exit' = "ok"
    /\ UNCHANGED <<tmpFiles, userFile, storeVars, keyVars>>

\* Where main goes with the audio synthesize_with_fallback returned.
AfterSynthesis == IF req.no_cache THEN "output" ELSE "cache_audio"

\* synthesize_with_fallback: the preferred provider, and on its failure the
\* availability probes.
TryPreferred(outcome, cmds, env) ==
    /\ pc = "preferred"
    /\ outcome \in Outcomes(req.provider)
    /\ LET r == synthesize_text(tmpFiles, req.text, req.provider, req.language,
                                req.voice, outcome)
       IN  /\ tried' = Append(tried, [provider |-> req.provider, ok |-> r.res.ok])
           /\ tmpFiles' = r.tmp
           /\ IF r.res.ok
              THEN /\ stdout' = Append(stdout, <<"Using provider", req.provider>>)
                   /\ audio_data' = Some(r.res.data)
                   /\ pc' = AfterSynthesis
                   /\ UNCHANGED <<available_providers, idx>>
              ELSE /\ stdout' = Append(stdout, <<"Warning: provider failed", req.provider>>)
                   /\ available_providers' = get_available_providers(cmds, env)
                   /\ idx' = 1
                   /\ pc' = "fallback"
                   /\ UNCHANGED audio_data
    /\ UNCHANGED <<cacheDir, cacheFiles, userFile, req, written, exit, worker, chan,
                   elapsed, ncmd, histVars, storeVars, keyVars>>

\* available_providers.iter().find(|p| p.name == *provider_name && p.available)
FindAvailable(providers, provider_name) ==
    LET hits == {i \in 1..Len(providers) :
                    providers[i].name = provider_name /\ providers[i].available}
    IN  IF hits = {} THEN None
        ELSE Some(providers[CHOOSE i \in hits : \A j \in hits : i <= j])

\* As SkipsProvider, without the `continue` for the provider already tried.
SkipsProvider_RetriesPreferred(provider_name, preferred_provider, providers) ==
    ~IsSome(FindAvailable(providers, provider_name))

\* Does the loop pass over this element of fallback_order without a call.
SkipsProvider(provider_name, preferred_provider, providers) ==
    \/ provider_name = preferred_provider
    \/ ~IsSome(FindAvailable(providers, provider_name))

\* One iteration of the loop over fallback_order.
FallbackStep(outcome) ==
    /\ pc = "fallback"
    /\ idx <= Len(fallback_order)
    /\ LET provider_name == fallback_order[idx]
       IN  IF SkipsProvider(provider_name, req.provider, available_providers)
           THEN /\ idx' = idx + 1
                /\ outcome = "none"
                /\ UNCHANGED <<tried, tmpFiles, stdout, audio_data, pc, available_providers>>
           ELSE LET provider == Unwrap(FindAvailable(available_providers, provider_name))
                    r == synthesize_text(tmpFiles, req.text, provider.name, req.language,
                                         req.voice, outcome)
                IN  /\ outcome \in Outcomes(provider.name)
                    /\ tried' = Append(tried, [provider |-> provider.name, ok |-> r.res.ok])
                    /\ tmpFiles' = r.tmp
                    /\ IF r.res.ok
                       THEN /\ stdout' = stdout \o << <<"Trying fallback provider", provider.name>>,
                                                     <<"Successfully used provider", provider.name>> >>
                            /\ audio_data' = Some(r.res.data)
                            /\ pc' = AfterSynthesis
                            \* the function returns: its locals are gone
                            /\ idx' = 0
                            /\ available_providers' = <<>>
                       ELSE /\ stdout' = stdout \o << <<"Trying fallback provider", provider.name>>,
                                                     <<"Warning: provider failed", provider.name>> >>
                            /\ idx' = idx + 1
                            /\ UNCHANGED <<audio_data, pc, available_providers>>
    /\ UNCHANGED <<cacheDir, cacheFiles, userFile, req, written,
                   exit, worker, chan, elapsed, ncmd, histVars, storeVars, keyVars>>

\* As AllProvidersFailed, returning empty audio instead of the error.
AllProvidersFailed_ReturnsEmptyAudio ==
    /\ pc = "fallback"
    /\ idx > Len(fallback_order)
    /\ pc' = AfterSynthesis
    /\ audio_data' = Some(<<>>)
    /\ idx' = 0
    /\ available_providers' = <<>>
    /\ UNCHANGED <<fsVars, req, tried, written, exit,
                   stdout, worker, chan, elapsed, ncmd, histVars, storeVars, keyVars>>

\* The loop ran out: synthesize_with_fallback returns Err and main's `?` ends
\* the process with it.
AllProvidersFailed ==
    /\ pc = "fallback"
    /\ idx > Len(fallback_order)
    /\ pc' = "done"
    /\ exit' = "all_providers_failed"
    /\ idx' = 0
    /\ available_providers' = <<>>
    /\ UNCHANGED <<fsVars, req, tried, audio_data, written,
                   stdout, worker, chan, elapsed, ncmd, histVars, storeVars, keyVars>>

\* cache_audio, first part: create_dir_all, then fs::write creates (or
\* truncates) the file.
CacheAudioBegin ==
    /\ pc = "cache_audio"
    /\ cacheDir' = TRUE
    /\ cacheFiles' = FsCreate(cacheFiles, get_cache_path(ReqKey(req)))
    /\ written' = 0
    /\ pc' = "cache_write"
    /\ stored' = Del(stored, get_cache_path(ReqKey(req)))
    /\ UNCHANGED <<tmpFiles, userFile, req, tried, available_providers, idx, audio_data,
                   exit, stdout, worker, chan, elapsed, ncmd, cache0, expect, storeVars,
                   keyVars>>

\* cache_audio, write_all: one more byte of the audio reaches the file.
CacheAudioWrite ==
    /\ pc = "cache_write"
    /\ written < Len(Unwrap(audio_data))
    /\ cacheFiles' = FsAppend(cacheFiles, get_cache_path(ReqKey(req)),
                              Unwrap(audio_data)[written + 1])
    /\ written' = written + 1
    /\ UNCHANGED <<cacheDir, tmpFiles, userFile, pc, req, tried, available_providers, idx,
                   audio_data, exit, stdout, worker, chan, elapsed, ncmd, histVars,
                   storeVars, keyVars>>

\* cache_audio returns Ok(()).
CacheAudioDone ==
    /\ pc = "cache_write"
    /\ written = Len(Unwrap(audio_data))
    /\ stored' = Put(stored, get_cache_path(ReqKey(req)), Unwrap(audio_data))
    /\ stdout' = Append(stdout, <<"Audio cached for future use">>)
    /\ pc' = "output"
    /\ UNCHANGED <<fsVars, req, tried, available_providers, idx, audio_data, written,
                   exit, worker, chan, elapsed, ncmd, cache0, expect, storeVars, keyVars>>

\* The process is killed, or write_all fails, while the file is being written.
CacheAudioInterrupted ==
    /\ pc = "cache_write"
    /\ written < Len(Unwrap(audio_data))
    /\ pc' = "done"
    /\ exit' = "io_error"
    /\ UNCHANGED <<fsVars, req, tried, available_providers, idx, audio_data, written,
                   stdout, worker, chan, elapsed, ncmd, histVars, storeVars, keyVars>>

\* main with the audio in hand: --output, --no-play, or the playback thread.
Output ==
    /\ pc = "output"
    /\ CASE req.mode = "output" ->
              /\ userFile' = audio_data
              /\ stdout' = Append(stdout, <<"Audio saved to output">>)
              /\ pc' = "done"
              /\ exit' = "ok"
              /\ UNCHANGED <<tmpFiles, worker>>
         [] req.mode = "no_play" ->
              /\ tmpFiles' = Put(tmpFiles, "tts_output.wav", Unwrap(audio_data))
              /\ stdout' = stdout \o << <<"Audio saved to tts_output.wav">>,
                                        <<"You can play it with">> >>
              /\ pc' = "done"
              /\ exit' = "ok"
              /\ UNCHANGED <<userFile, worker>>
         [] OTHER ->
              \* try_play_audio_with_timeout: thread::spawn, then recv_timeout
              /\ worker' = "spawned"
              /\ pc' = "recv"
              /\ UNCHANGED <<tmpFiles, userFile, stdout, exit>>
    /\ UNCHANGED <<cacheDir, cacheFiles, req, tried, available_providers, idx, audio_data,
                   written, chan, elapsed, ncmd, histVars, storeVars, keyVars>>

PlayOutcomes == {"ok", "player_failed", "no_player"}

\* play_audio_blocking after its temporary file is written: the player ran (or
\* none was found), the temporary file is removed, the Result.
play_audio_blocking(tmp, outcome) ==
    [res |-> IF outcome = "ok" THEN Ok(<<>>)
             ELSE IF outcome = "player_failed" THEN Err("PlayerFailed")
             ELSE Err("NoPlayer"),
     tmp |-> FsRemove(tmp, "tts_playback.wav")]

\* tx.send(result): the result is dropped when main no longer listens.
Send(result) == IF pc = "recv" THEN Some(result) ELSE chan

\* The playback thread writes its temporary file; a failed write is its result.
WorkerWrite(ok) ==
    /\ worker = "spawned"
    /\ IF ok
       THEN /\ tmpFiles' = Put(tmpFiles, "tts_playback.wav", Unwrap(audio_data))
            /\ worker' = "playing"
            /\ UNCHANGED chan
       ELSE /\ chan' = Send(Err("IoError"))
            /\ worker' = "finished"
            /\ UNCHANGED tmpFiles
    /\ UNCHANGED <<cacheDir, cacheFiles, userFile, pc, req, tried, available_providers,
                   idx, audio_data, written, exit, stdout, elapsed, ncmd, histVars,
                   storeVars, keyVars>>

\* The playback thread finishes and sends its result.
WorkerFinish(outcome) ==
    /\ worker = "playing"
    /\ LET r == play_audio_blocking(tmpFiles, outcome)
       IN  /\ tmpFiles' = r.tmp
           /\ chan' = Send(r.res)
    /\ worker' = "finished"
    /\ UNCHANGED <<cacheDir, cacheFiles, userFile, pc, req, tried, available_providers,
                   idx, audio_data, written, exit, stdout, elapsed, ncmd, histVars,
                   storeVars, keyVars>>

\* A second passes while main waits in recv_timeout.
Tick ==
    /\ pc = "recv"
    /\ chan = None
    /\ elapsed < PlaybackTimeoutSecs
    /\ elapsed' = elapsed + 1
    /\ UNCHANGED <<fsVars, pc, req, tried, available_providers, idx, audio_data, written,
                   exit, stdout, worker, chan, ncmd, histVars, storeVars, keyVars>>

\* As OnPlayback, with the playback error returned from main by a `?`.
OnPlayback_PropagatesError(result, out, tmp, audio) ==
    IF result.ok
    THEN [stdout |-> Append(out, <<"Audio playback completed">>),
          tmp |-> tmp, exit |-> "ok"]
    ELSE [stdout |-> out, tmp |-> tmp, exit |-> "playback_error"]

\* main's match on the Result of try_play_audio_with_timeout: [stdout, tmp, exit].
OnPlayback(result, out, tmp, audio) ==
    IF result.ok
    THEN [stdout |-> Append(out, <<"Audio playback completed">>),
          tmp |-> tmp, exit |-> "ok"]
    ELSE [stdout |-> out \o << <<"Audio playback failed", result.err>>,
                               <<"Audio saved to tts_output.wav">>,
                               <<"You can play it with">>,
                               <<"Use --no-play flag to save to file by default">> >>,
          tmp |-> Put(tmp, "tts_output.wav", audio),
          exit |-> "ok"]

\* recv_timeout returns the worker's result.
RecvResult ==
    /\ pc = "recv"
    /\ IsSome(chan)
    /\ LET m == OnPlayback(Unwrap(chan), stdout, tmpFiles, Unwrap(audio_data))
       IN  /\ stdout' = m.stdout
           /\ tmpFiles' = m.tmp
           /\ exit' = m.exit
    /\ pc' = "done"
    \* try_play_audio_with_timeout returned: the receiver is dropped
    /\ chan' = None
    /\ elapsed' = 0
    /\ UNCHANGED <<cacheDir, cacheFiles, userFile, req, tried, available_providers, idx,
                   audio_data, written, worker, ncmd, histVars, storeVars, keyVars>>

\* recv_timeout returns RecvTimeoutError::Timeout.
RecvTimeout ==
    /\ pc = "recv"
    /\ chan = None
    /\ elapsed = PlaybackTimeoutSecs
    /\ LET m == OnPlayback(Err("Timeout"), stdout, tmpFiles, Unwrap(audio_data))
       IN  /\ stdout' = m.stdout
           /\ tmpFiles' = m.tmp
           /\ exit' = m.exit
    /\ pc' = "done"
    \* try_play_audio_with_timeout returned: the receiver is dropped
    /\ chan' = None
    /\ elapsed' = 0
    /\ UNCHANGED <<cacheDir, cacheFiles, userFile, req, tried, available_providers, idx,
                   audio_data, written, worker, ncmd, histVars, storeVars, keyVars>>

----------------------------------------------------------------------------
(* The specification of the command-line program *)

NoRet == [op |-> "none", key |-> "", res |-> "ok", value |-> None, flip |-> FALSE]

StoreIdle ==
    /\ sPc = "idle" /\ sKey = "" /\ sBlob = <<>> /\ sRet = NoRet
    /\ sModel = EmptyMap /\ sPuts = EmptyMap /\ sClean = TRUE

KeyIdle == kIn = <<>> /\ kOut = <<>>

\* The caches an invocation can find: none, an empty one, and one holding the
\* entry an earlier "speak hello --provider espeak" left.
InitialCaches ==
    { [dir |-> FALSE, files |-> EmptyMap],
      [dir |-> TRUE,  files |-> EmptyMap],
      [dir |-> TRUE,
       files |-> Put(EmptyMap,
                     get_cache_path(generate_cache_key("hello", "espeak", "en-US", None)),
                     synthesize_espeak("hello", "en-US", None, "ok").data)] }

ProcInit ==
    /\ pc = "idle" /\ req = NoReq /\ tried = <<>> /\ available_providers = <<>>
    /\ idx = 0 /\ audio_data = None /\ written = 0 /\ exit = "none" /\ stdout = <<>>
    /\ worker = "none" /\ chan = None /\ elapsed = 0 /\ ncmd = 0
    /\ expect = None

FsInit(cache) ==
    /\ cacheDir = cache.dir
    /\ cacheFiles = cache.files
    /\ tmpFiles = EmptyMap
    /\ userFile = None
    /\ cache0 = cache
    /\ stored = cache.files

Init == (\E c \in InitialCaches : FsInit(c)) /\ ProcInit /\ StoreIdle /\ KeyIdle

\* What the outside world can answer to a synthesis call of any provider.
AllOutcomes == UNION {Outcomes(p) : p \in Names}

\* The steps of an invocation once its command has begun.
Run(cmds, envs) ==
    \/ \E o \in AllOutcomes, c \in cmds, e \in envs : TryPreferred(o, c, e)
    \/ \E o \in AllOutcomes : FallbackStep(o)
    \/ AllProvidersFailed
    \/ CacheAudioBegin
    \/ CacheAudioWrite
    \/ CacheAudioDone
    \/ CacheAudioInterrupted
    \/ Output

Playback ==
    \/ \E ok \in BOOLEAN : WorkerWrite(ok)
    \/ \E o \in PlayOutcomes : WorkerFinish(o)
    \/ Tick
    \/ RecvResult
    \/ RecvTimeout

\* One invocation of the program.
Next ==
    \/ \E r \in Requests : pc = "idle" /\ Speak(r)
    \/ \E r \in Requests : pc = "idle" /\ SpeakClearCache(r)
    \/ pc = "idle" /\ ClearCache
    \/ Run(SUBSET Commands, SUBSET EnvVars)
    \/ Playback

Spec == Init /\ [][Next]_vars

----------------------------------------------------------------------------
(* A session: invocations one after the other on the same file system *)

SessionRequests ==
    [text : {"hello"}, provider : {"espeak", "gcloud", "speak"}, language : {"en-US"},
     voice : {None}, mode : {"output"}, no_cache : BOOLEAN]

SessionCommands == {"espeak", "gcloud"}

SessionInit ==
    /\ FsInit([dir |-> FALSE, files |-> EmptyMap])
    /\ ProcInit /\ StoreIdle /\ KeyIdle

SessionNext ==
    \/ \E r \in SessionRequests : Speak(r)
    \/ \E r \in SessionRequests : SpeakClearCache(r)
    \/ ClearCache
    \/ Run(SUBSET SessionCommands, {{}})

SpecSession == SessionInit /\ [][SessionNext]_vars

----------------------------------------------------------------------------
(* Properties of synthesize_with_fallback (Spec) *)

TriedProviders == [i \in 1..Len(tried) |-> tried[i].provider]
AllTriedFailed == \A i \in 1..Len(tried) : ~tried[i].ok
ReturnsAudio   == pc = "fallback" /\ pc' \in {"cache_audio", "output"}

\* The providers other than the preferred one that the probes report available.
OtherAvailable ==
    {n \in Commands : /\ n # req.provider
                      /\ \E i \in 1..Len(available_providers) :
                            /\ available_providers[i].name = n
                            /\ available_providers[i].available}

C1_State ==
    /\ \A i, j \in 1..Len(tried) : i # j => tried[i].provider # tried[j].provider
    /\ tried # <<>> => tried[1].provider = req.provider
    /\ pc \in {"fallback", "cache_audio", "cache_write"}
          => Cardinality({i \in 1..Len(tried) : tried[i].provider = req.provider}) = 1
    /\ pc = "fallback" => ~tried[1].ok

C1_Step ==
    (ReturnsAudio /\ Cardinality(OtherAvailable) = 1)
        => \A p \in OtherAvailable :
              /\ tried' = << [provider |-> req.provider, ok |-> FALSE],
                             [provider |-> p, ok |-> TRUE] >>
              /\ Unwrap(audio_data')[1] = p

\* C1: in one run of synthesize_with_fallback no provider is attempted twice; the
\* preferred provider (known or unknown name) is attempted exactly once, first,
\* and never again by the fallback loop; when it failed and exactly one other
\* provider is available and succeeds, the audio returned is that provider's.
C1_NoProviderTriedTwice == [](C1_State) /\ [][C1_Step]_vars

\* An unknown preferred name failed, one fallback was called and it succeeded.
C1_Witness ==
    /\ req.provider = "speak"
    /\ Len(tried) = 2
    /\ tried[1] = [provider |-> "speak", ok |-> FALSE]
    /\ tried[2] = [provider |-> "gcloud", ok |-> TRUE]
    /\ IsSome(audio_data) /\ Unwrap(audio_data)[1] = "gcloud"

\* Is a name of the claimed order one the loop has to call.
C2_Eligible(n) == n \in OtherAvailable

C2_Order == <<"espeak", "festival", "say", "gcloud">>

C2_Warnings == {i \in 1..Len(stdout) : stdout[i][1] = "Warning: provider failed"}

C2_State ==
    /\ pc = "fallback" =>
          LET due == SelectSeq(SubSeq(C2_Order, 1, idx - 1), C2_Eligible)
          IN  /\ Len(tried) = 1 + Len(due)
              /\ \A i \in 1..Len(due) : tried[i + 1].provider = due[i]
              /\ AllTriedFailed
              /\ Cardinality(C2_Warnings) = Len(tried)
              /\ exit = "running"
    /\ \A i \in 1..Len(tried) : tried[i].ok => i = Len(tried)

C2_Step ==
    /\ ReturnsAudio =>
          /\ idx \in 1..Len(C2_Order)
          /\ C2_Eligible(C2_Order[idx])
          /\ tried' = Append(tried, [provider |-> C2_Order[idx], ok |-> TRUE])
          /\ Unwrap(audio_data')[1] = C2_Order[idx]
    /\ IsSome(audio_data) => tried' = tried

\* C2: after the preferred provider failed, the remaining providers are attempted
\* in the order espeak, festival, say, gcloud; one the probes report unavailable
\* is never attempted; a failing fallback only prints a warning and the loop goes
\* on; the first success ends the loop and its audio is returned.
C2_FallbackOrder == [](C2_State) /\ [][C2_Step]_vars

\* espeak failed, festival failed, say was passed over, gcloud succeeded.
C2_Witness ==
    /\ TriedProviders = <<"espeak", "festival", "gcloud">>
    /\ ~tried[2].ok /\ tried[3].ok
    /\ IsSome(audio_data) /\ Unwrap(audio_data)[1] = "gcloud"
    /\ Cardinality(C2_Warnings) = 2

\* C3: when the preferred provider and every other provider that was available
\* failed, the command ends with the all-providers-failed error, and the cache
\* (directory and files) is as it was when the command began.
C3_AllFailedLeavesCache ==
    (tried # <<>> /\ AllTriedFailed) =>
        /\ cacheDir = cache0.dir
        /\ cacheFiles = cache0.files
        /\ audio_data = None
        /\ pc \in {"fallback", "done"}
        /\ pc = "done" => exit = "all_providers_failed"

\* Three providers failed with caching enabled and an entry of another key in
\* the cache.
C3_Witness ==
    /\ pc = "done" /\ exit = "all_providers_failed"
    /\ ~req.no_cache
    /\ Len(tried) = 3
    /\ cacheFiles # EmptyMap

----------------------------------------------------------------------------
(* Properties of the cache used by speak (SpecSession) *)

C4_Path == get_cache_path(generate_cache_key(req.text, req.provider, req.language,
                                             req.voice))

\* C4: with caching enabled, when a speak command has synthesized and finished
\* writing the cache, the entry at key(text, provider, language, voice) holds the
\* audio; and a speak command that begins while such an entry is stored (written
\* by a completed earlier command and not removed since) calls no provider and
\* holds exactly the stored bytes.
C4_CachedRequestServed ==
    /\ ( /\ ~req.no_cache
         /\ tried # <<>> /\ tried[Len(tried)].ok
         /\ pc = "output" \/ (pc = "done" /\ exit = "ok") )
       => /\ C4_Path \in DOMAIN cacheFiles
          /\ cacheFiles[C4_Path] = Unwrap(audio_data)
    /\ IsSome(expect)
       => /\ tried = <<>>
          /\ audio_data = expect
          /\ pc \in {"output", "done"}
          /\ stdout[1] = <<"Using cached audio">>

\* A later command found the entry an earlier one stored and ended with it.
C4_Witness ==
    /\ ncmd >= 2
    /\ pc = "done" /\ exit = "ok"
    /\ IsSome(expect) /\ audio_data = expect
    /\ tried = <<>>
    /\ userFile = expect

----------------------------------------------------------------------------
(* Properties of playback and of the temporary files (Spec) *)

C9_Failed == chan = None \/ ~Unwrap(chan).ok

C9_Step ==
    /\ (pc = "recv" /\ pc' # "recv") =>
          /\ pc' = "done" /\ exit' = "ok"
          /\ chan = None => elapsed = 10
          /\ C9_Failed =>
                /\ "tts_output.wav" \in DOMAIN tmpFiles'
                /\ tmpFiles'["tts_output.wav"] = Unwrap(audio_data)
                /\ \E i \in 1..Len(stdout') : stdout'[i][1] = "Audio playback failed"
                /\ \E i \in 1..Len(stdout') : stdout'[i][1] = "You can play it with"
    /\ pc = "done" =>
          /\ pc' = "done" /\ exit' = exit /\ stdout' = stdout
          /\ userFile' = userFile
          /\ "tts_output.wav" \in DOMAIN tmpFiles =>
                /\ "tts_output.wav" \in DOMAIN tmpFiles'
                /\ tmpFiles'["tts_output.wav"] = tmpFiles["tts_output.wav"]

C10_TempFileRemoved ==
    /\ (\E i \in 1..Len(tried) : tried[i].provider = "festival")
          => "tts_temp.wav" \notin DOMAIN tmpFiles
    /\ (\E i \in 1..Len(tried) : tried[i].provider = "say")
          => "tts_temp.aiff" \notin DOMAIN tmpFiles

----------------------------------------------------------------------------
(* The cache store called directly (SpecStore) *)

StoreRequests == [text : {"hello"}, provider : {"espeak", "gcloud"},
                  language : {"en-US"}, voice : {None}]
StoreKeys  == {generate_cache_key(r.text, r.provider, r.language, r.voice) :
                  r \in StoreRequests}
StoreBlobs == {<<>>, <<3>>, <<1, 2>>}

Ret(op, key, res, value) ==
    [op |-> op, key |-> key, res |-> res, value |-> value, flip |-> ~sRet.flip]

\* get_cached_audio(cache_key)
StoreGet(k) ==
    /\ sPc = "idle"
    /\ sRet' = Ret("get", k, "ok", get_cached_audio(cacheFiles, k))
    /\ UNCHANGED <<fsVars, procVars, histVars, sPc, sKey, sBlob, sModel, sPuts, sClean,
                   keyVars>>

\* cache_audio(cache_key, audio_data), first part: create_dir_all, File::create.
StorePutBegin(k, blob) ==
    /\ sPc = "idle"
    /\ cacheDir' = TRUE
    /\ cacheFiles' = FsCreate(cacheFiles, get_cache_path(k))
    /\ written' = 0
    /\ sPc' = "writing" /\ sKey' = k /\ sBlob' = blob
    /\ sPuts' = Put(sPuts, k, (IF k \in DOMAIN sPuts THEN sPuts[k] ELSE {}) \cup {blob})
    /\ UNCHANGED <<tmpFiles, userFile, pc, req, tried, available_providers, idx,
                   audio_data, exit, stdout, worker, chan, elapsed, ncmd, histVars,
                   sRet, sModel, sClean, keyVars>>

\* cache_audio, write_all: one more byte reaches the file.
StorePutWrite ==
    /\ sPc = "writing"
    /\ written < Len(sBlob)
    /\ cacheFiles' = FsAppend(cacheFiles, get_cache_path(sKey), sBlob[written + 1])
    /\ written' = written + 1
    /\ UNCHANGED <<cacheDir, tmpFiles, userFile, pc, req, tried, available_providers, idx,
                   audio_data, exit, stdout, worker, chan, elapsed, ncmd, histVars,
                   storeVars, keyVars>>

\* cache_audio returns Ok(()).
StorePutDone ==
    /\ sPc = "writing"
    /\ written = Len(sBlob)
    /\ sRet' = Ret("put", sKey, "ok", None)
    /\ sModel' = Put(sModel, sKey, sBlob)
    /\ sPc' = "idle"
    /\ UNCHANGED <<fsVars, procVars, histVars, sKey, sBlob, sPuts, sClean, keyVars>>

\* The process is killed, or write_all fails, while the file is being written.
StorePutInterrupted ==
    /\ sPc = "writing"
    /\ written < Len(sBlob)
    /\ sRet' = Ret("put", sKey, "io_error", None)
    /\ sClean' = FALSE
    /\ sPc' = "idle"
    /\ UNCHANGED <<fsVars, procVars, histVars, sKey, sBlob, sModel, sPuts, keyVars>>

\* clear_text_cache(text, provider, language, voice)
StoreRemove(r) ==
    /\ sPc = "idle"
    /\ LET k     == generate_cache_key(r.text, r.provider, r.language, r.voice)
           after == clear_text_cache(cacheFiles, r.text, r.provider, r.language, r.voice)
       IN  /\ cacheFiles' = after.files
           /\ sRet' = Ret("remove", k, after.res, None)
           /\ sModel' = Del(sModel, k)
    /\ UNCHANGED <<cacheDir, tmpFiles, userFile, procVars, histVars, sPc, sKey, sBlob,
                   sPuts, sClean, keyVars>>

\* clear_all_cache()
StoreClearAll ==
    /\ sPc = "idle"
    /\ LET after == clear_all_cache(cacheDir, cacheFiles)
       IN  /\ cacheDir' = after.dir
           /\ cacheFiles' = after.files
           /\ sRet' = Ret("clear_all", "", after.res, None)
    /\ sModel' = EmptyMap
    /\ UNCHANGED <<tmpFiles, userFile, procVars, histVars, sPc, sKey, sBlob, sPuts,
                   sClean, keyVars>>

StoreInit == SessionInit

StoreNext ==
    \/ \E k \in StoreKeys : StoreGet(k)
    \/ \E k \in StoreKeys, b \in StoreBlobs : StorePutBegin(k, b)
    \/ StorePutWrite
    \/ StorePutDone
    \/ StorePutInterrupted
    \/ \E r \in StoreRequests : StoreRemove(r)
    \/ StoreClearAll

SpecStore == StoreInit /\ [][StoreNext]_vars

\* What a key-to-blob map answers for k after the puts, removes and clears so far.
ModelGet(k) == IF k \in DOMAIN sModel THEN Some(sModel[k]) ELSE None

\* C5: after puts, removes and clears that all succeeded, get of a key returns the
\* blob of the latest put of that key, a put on an existing key having replaced
\* what was there, and returns None when a remove of the key or a clear_all
\* followed that put or the key was never put.
C5_StoreIsMap ==
    (sPc = "idle" /\ sClean) =>
        /\ \A k \in StoreKeys : get_cached_audio(cacheFiles, k) = ModelGet(k)
        /\ sRet.op = "get" => sRet.value = ModelGet(sRet.key)

\* A get returned the second blob put on a key, the first overwritten.
C5_Witness ==
    /\ sClean
    /\ sRet.op = "get" /\ sRet.value = Some(<<3>>)
    /\ sPuts[sRet.key] = {<<1, 2>>, <<3>>}
    /\ sBlob = <<3>>

C6_Step ==
    /\ (sRet'.flip # sRet.flip /\ sRet'.op = "remove"
            /\ get_cache_path(sRet'.key) \notin DOMAIN cacheFiles)
          => (sRet'.res = "ok" /\ cacheFiles' = cacheFiles /\ cacheDir' = cacheDir)
    /\ (sRet'.flip # sRet.flip /\ sRet'.op = "clear_all" /\ ~cacheDir)
          => (sRet'.res = "ok" /\ cacheFiles' = cacheFiles /\ cacheDir' = cacheDir)

\* C6: clear_text_cache of a key that has no file, and clear_all_cache when the
\* cache directory does not exist, return Ok and leave the cache files and the
\* existence of the directory as they were.
C6_AbsentIsNoOp == [][C6_Step]_vars

\* A remove of a key without a file returned, another key's file still there.
C6_Witness ==
    /\ sRet.op = "remove" /\ sRet.res = "ok"
    /\ sRet.key \notin DOMAIN sPuts
    /\ cacheFiles # EmptyMap

\* C8: between operations, get of a key returns None or a whole blob that was
\* handed to a put of that key, also after a put was interrupted part-way.
C8_NoPartialBlob ==
    sPc = "idle" =>
        \A k \in StoreKeys :
            LET got == get_cached_audio(cacheFiles, k)
            IN  IsSome(got) => (k \in DOMAIN sPuts /\ Unwrap(got) \in sPuts[k])

----------------------------------------------------------------------------
(* generate_cache_key on bounded strings (SpecKey) *)

Alphabet == {"a", "b"}

RECURSIVE Strings(_)
Strings(n) ==
    IF n = 0 THEN {""}
    ELSE LET shorter == Strings(n - 1)
         IN  shorter \cup {s \o c : s \in shorter, c \in Alphabet}

KeyInit ==
    /\ kIn \in [text : Strings(MaxStrLen), provider : Strings(MaxStrLen),
                language : Strings(MaxStrLen), voice : Strings(MaxStrLen)]
    /\ kOut = <<>>
    /\ FsInit([dir |-> FALSE, files |-> EmptyMap])
    /\ ProcInit /\ StoreIdle

\* The key of the request without a voice and with the voice.
KeyCompute ==
    /\ kOut = <<>>
    /\ kOut' = Some([without |-> generate_cache_key(kIn.text, kIn.provider, kIn.language,
                                                    None),
                     with    |-> generate_cache_key(kIn.text, kIn.provider, kIn.language,
                                                    Some(kIn.voice))])
    /\ UNCHANGED <<fsVars, procVars, histVars, storeVars, kIn>>

KeyNext == KeyCompute

SpecKey == KeyInit /\ [][KeyNext]_vars

\* C7: for every text, provider and language and every non-empty voice v, the key
\* without a voice differs from the key with Some(v).
C7_VoicePresenceChangesKey ==
    (IsSome(kOut) /\ kIn.voice # "") => Unwrap(kOut).without # Unwrap(kOut).with

\* Keys were computed for a request with all four fields non-empty.
C7_Witness ==
    /\ IsSome(kOut)
    /\ kIn.text = "ab" /\ kIn.provider = "b" /\ kIn.language = "a" /\ kIn.voice = "ba"
    /\ Unwrap(kOut).with = "h(abbaba)"

----------------------------------------------------------------------------
(* Whose audio a cache entry holds (SpecSession) *)

\* C11: every entry a completed cache_audio stored under
\* key(text, provider, language, voice) holds audio the provider named in the
\* key synthesized for that text, and a command served from the cache holds
\* audio of the provider it named; a fallback provider's audio is never under
\* the key of the provider that failed.
C11_EntryFromNamedProvider ==
    /\ \A r \in SessionRequests :
          LET path == get_cache_path(generate_cache_key(r.text, r.provider, r.language,
                                                        r.voice))
          IN  path \in DOMAIN stored =>
                 /\ Len(stored[path]) >= 2
                 /\ stored[path][1] = r.provider
                 /\ stored[path][2] = r.text
    /\ (IsSome(expect) /\ pc \in {"output", "done"})
          => Unwrap(audio_data)[1] = req.provider

----------------------------------------------------------------------------
(* generate_cache_key on two requests (SpecKeyPair) *)

PairStrLen == 1

\* The arguments generate_cache_key takes: three strings and an Option<&str>.
KeyRequests ==
    [text : Strings(PairStrLen), provider : Strings(PairStrLen),
     language : Strings(PairStrLen),
     voice : {None} \cup {Some(v) : v \in Strings(PairStrLen)}]

KeyPairInit ==
    /\ kIn \in KeyRequests \X KeyRequests
    /\ kOut = <<>>
    /\ FsInit([dir |-> FALSE, files |-> EmptyMap])
    /\ ProcInit /\ StoreIdle

\* The keys of the two requests.
KeyPairCompute ==
    /\ kOut = <<>>
    /\ kOut' = Some(<< generate_cache_key(kIn[1].text, kIn[1].provider, kIn[1].language,
                                          kIn[1].voice),
                       generate_cache_key(kIn[2].text, kIn[2].provider, kIn[2].language,
                                          kIn[2].voice) >>)
    /\ UNCHANGED <<fsVars, procVars, histVars, storeVars, kIn>>

KeyPairNext == KeyPairCompute

SpecKeyPair == KeyPairInit /\ [][KeyPairNext]_vars

\* C12: two requests that differ in text, provider, language or voice (no voice
\* differing from every voice, the empty one included) get different keys.
C12_KeyInjective ==
    (IsSome(kOut) /\ kIn[1] # kIn[2]) => Unwrap(kOut)[1] # Unwrap(kOut)[2]

====
